---- MODULE Spec2Model ----
(***************************************************************************)
(* Model of @aminnairi/validation (sources/index.ts): the rule catalogue   *)
(* and the createValidator engine.  Reports live on a heap of objects so   *)
(* that object identity (aliasing between initialValidation and reports)   *)
(* is part of the state.  A validate call is an async function: it runs    *)
(* synchronously up to the next `await rule.isValid(...)` and is resumed   *)
(* when that promise settles, so several calls may be pending at once.     *)
(***************************************************************************)
EXTENDS Integers, Sequences, FiniteSets, TLC

\* ------------------------------------------------------------------ bounds
MaxCalls == 2
MaxProps == 2
MaxRules == 2

\* ------------------------------------------------------------------ values
\* JavaScript values: typeof tag, number payload n (with x = "half" the number
\* n + 0.5, with x = "NaN" or "Infinity" that number), string payload s (the
\* characters of the string).
Undefined == [t |-> "undefined", n |-> 0, x |-> "", s |-> <<>>]
Num(k) == [t |-> "number", n |-> k, x |-> "", s |-> <<>>]
Half(k) == [t |-> "number", n |-> k, x |-> "half", s |-> <<>>]
NaN == [t |-> "number", n |-> 0, x |-> "NaN", s |-> <<>>]
Infinity == [t |-> "number", n |-> 0, x |-> "Infinity", s |-> <<>>]
Str(cs) == [t |-> "string", n |-> 0, x |-> "", s |-> cs]

\* Object.is(a, b) in the place of a === b: NaN is the same value as NaN.
SameValue(a, b) == a = b

\* a === b: same type and same payload, NaN being equal to nothing.
StrictEquals(a, b) == a = b /\ a.x # "NaN"

\* a > b on two numbers: false when either is NaN.
GreaterThan(a, b) ==
  /\ a.x # "NaN" /\ b.x # "NaN" /\ b.x # "Infinity"
  /\ \/ a.x = "Infinity"
     \/ 2 * a.n + (IF a.x = "half" THEN 1 ELSE 0) > 2 * b.n + (IF b.x = "half" THEN 1 ELSE 0)

\* Number.isFinite in the place of Number.isInteger.
NumberIsFinite(value) == value.t = "number" /\ value.x \in {"", "half"}

\* Number.isInteger(value): a finite number without fractional part.
NumberIsInteger(value) == value.t = "number" /\ value.x = ""

\* ------------------------------------------------------------ regular expressions
\* A RegExp object: its pattern (a literal run of characters, found anywhere
\* in the input), its global flag and its lastIndex property, which test()
\* reads and writes when the flag is set.  isRegExp is false for a value that
\* has no test method.
NoRegExp == [isRegExp |-> FALSE, source |-> <<>>, global |-> FALSE, lastIndex |-> 0]
RegExp(source, global) == [isRegExp |-> TRUE, source |-> source, global |-> global, lastIndex |-> 0]

\* The pattern occurs in str at index i (0-based, as lastIndex counts).
OccursAt(source, str, i) ==
  /\ i + Len(source) <= Len(str)
  /\ \A k \in 1..Len(source) : str[i + k] = source[k]

\* The indexes from which the search of regex.test(str) may start a match.
MatchesFrom(regex, str) ==
  {i \in (IF regex.global THEN regex.lastIndex ELSE 0)..Len(str) : OccursAt(regex.source, str, i)}

Min(S) == CHOOSE i \in S : \A j \in S : i <= j

\* regex.test(str): the boolean and the RegExp object afterwards.  With the
\* global flag the search starts at lastIndex, a match moves lastIndex to its
\* end and a failure resets it to 0; without it lastIndex is left alone.
RegExpTest(regex, str) ==
  LET found == MatchesFrom(regex, str)
  IN [result |-> found # {},
      regex |-> IF ~regex.global THEN regex
                ELSE [regex EXCEPT !.lastIndex =
                        IF found = {} THEN 0 ELSE Min(found) + Len(regex.source)]]

\* Character classes of the isPassword pattern, on the characters of the model.
Digits == {"1"}
LowerCase == {"a"}
UpperCase == {"A"}
LineTerminators == {"\n"}

\* The length the isPassword pattern asks for: the 8 of `.{8,}`.
PatternMinimum == 8
\* The default of isPassword's parameter.
DefaultMinimum == 8

\* (?=.*[class]) at the start of str: a character of the class, reached over
\* characters `.` matches (any but a line terminator).
LooksAhead(str, class) ==
  \E i \in 1..Len(str) : str[i] \in class /\ \A j \in 1..(i - 1) : str[j] \notin LineTerminators

\* new RegExp(`^(?=.*[0-9])(?=.*[a-z])(?=.*[A-Z])(?=.*[^0-9a-zA-Z]).{8,}$`).test(str)
PasswordTest(str) ==
  LET chars == {str[i] : i \in 1..Len(str)}
  IN /\ LooksAhead(str, Digits)
     /\ LooksAhead(str, LowerCase)
     /\ LooksAhead(str, UpperCase)
     /\ LooksAhead(str, chars \ (Digits \cup LowerCase \cup UpperCase))
     /\ Len(str) >= PatternMinimum
     /\ chars \cap LineTerminators = {}

\* ------------------------------------------------------------------- rules
\* A rule value: the constructor that built it and the parameters its isValid
\* closes over.  "custom" is a user-written Rule doing asynchronous I/O (its
\* promise settles later, to true, false or a rejection); "never" is a custom
\* rule whose promise never settles; "notARule" is a value without an isValid
\* operation (for example 42).
ARule(kind) ==
  [kind |-> kind, expectedValue |-> Undefined, otherProperty |-> "",
   minimum |-> 0, regex |-> NoRegExp]

IsNumber == ARule("isNumber")
IsNumberEqualTo(expectedValue) == [ARule("isNumberEqualTo") EXCEPT !.expectedValue = expectedValue]
IsNumberNotEqualTo(expectedValue) == [ARule("isNumberNotEqualTo") EXCEPT !.expectedValue = expectedValue]
IsNumberGreaterThan(expectedValue) == [ARule("isNumberGreaterThan") EXCEPT !.expectedValue = expectedValue]
IsNumberLowerThan(expectedValue) == [ARule("isNumberLowerThan") EXCEPT !.expectedValue = expectedValue]
IsInteger == ARule("isInteger")
IsIntegerEqualTo(expectedValue) == [ARule("isIntegerEqualTo") EXCEPT !.expectedValue = expectedValue]
IsIntegerNotEqualTo(expectedValue) == [ARule("isIntegerNotEqualTo") EXCEPT !.expectedValue = expectedValue]
IsIntegerGreaterThan(expectedValue) == [ARule("isIntegerGreaterThan") EXCEPT !.expectedValue = expectedValue]
IsIntegerLowerThan(expectedValue) == [ARule("isIntegerLowerThan") EXCEPT !.expectedValue = expectedValue]
IsEqualToProperty(otherProperty) == [ARule("isEqualToProperty") EXCEPT !.otherProperty = otherProperty]
IsNotEqualToProperty(otherProperty) == [ARule("isNotEqualToProperty") EXCEPT !.otherProperty = otherProperty]
IsPassword(minimum) == [ARule("isPassword") EXCEPT !.minimum = minimum]
DoesMatch(regex) == [ARule("doesMatch") EXCEPT !.regex = regex]
DoesNotMatch(regex) == [ARule("doesNotMatch") EXCEPT !.regex = regex]
CustomRule == ARule("custom")
NeverRule == ARule("never")
NotARule == ARule("notARule")

\* A rules mapping: the rule entries in insertion order, or `null`, on which
\* Object.entries throws.
Null == [null |-> TRUE, rules |-> <<>>]
RulesOf(rs) == [null |-> FALSE, rules |-> rs]

PropNames == {"answer", "isValid"}

\* The rule entries a property of a schema may carry: a catalogue rule, a custom
\* rule (named isValid, like the report's own aggregate key) and a non-rule.
SchemaRules ==
  {[name |-> "isValidAnswer", val |-> IsNumberEqualTo(Num(42))],
   [name |-> "isValid", val |-> CustomRule],
   [name |-> "isValidAnswer", val |-> NotARule]}
TargetValues == {Num(42)}

\* The rejection reason of a custom rule, and the TypeError of calling a non-function.
RuleError == "RuleError"
TypeError == "TypeError"

\* Sequences of at most n entries [name, val], no name repeated (the keys of
\* an object in insertion order).
NoDupSeqs(entries, n) ==
  UNION {{s \in [1..k -> entries] :
            \A i, j \in 1..k : i # j => s[i].name # s[j].name} : k \in 0..n}

RuleMaps == {RulesOf(rs) : rs \in NoDupSeqs(SchemaRules, MaxRules)} \cup {Null}
Schemas == NoDupSeqs([name : PropNames, val : RuleMaps], MaxProps)

\* The number of rule entries of a schema.
RECURSIVE Entries(_)
Entries(s) == IF s = <<>> THEN 0 ELSE Len(s[1].val.rules) + Entries(Tail(s))

\* A target: a mapping from some property names to values.
Targets == {<<>>} \cup [{"answer"} -> TargetValues]

\* target[property], the undefined value when the property is absent.
Get(target, property) ==
  IF property \in DOMAIN target THEN target[property] ELSE Undefined

\* The boolean the isValid of a catalogue rule without state resolves to
\* (doesMatch and doesNotMatch, whose RegExp has state, are in IsValidOf).
RuleResult(rule, target, property, value) ==
  CASE rule.kind = "isNumber" -> value.t = "number"
    [] rule.kind = "isNumberEqualTo" ->
         value.t = "number" /\ StrictEquals(rule.expectedValue, value)
    [] rule.kind = "isNumberNotEqualTo" ->
         value.t = "number" /\ ~StrictEquals(rule.expectedValue, value)
    [] rule.kind = "isNumberGreaterThan" ->
         value.t = "number" /\ GreaterThan(value, rule.expectedValue)
    [] rule.kind = "isNumberLowerThan" ->
         value.t = "number" /\ GreaterThan(rule.expectedValue, value)
    [] rule.kind = "isInteger" -> value.t = "number" /\ NumberIsInteger(value)
    [] rule.kind = "isIntegerEqualTo" ->
         value.t = "number" /\ NumberIsInteger(value) /\ StrictEquals(rule.expectedValue, value)
    [] rule.kind = "isIntegerNotEqualTo" ->
         value.t = "number" /\ NumberIsInteger(value) /\ ~StrictEquals(rule.expectedValue, value)
    [] rule.kind = "isIntegerGreaterThan" ->
         value.t = "number" /\ NumberIsInteger(value) /\ GreaterThan(value, rule.expectedValue)
    [] rule.kind = "isIntegerLowerThan" ->
         value.t = "number" /\ NumberIsInteger(value) /\ GreaterThan(rule.expectedValue, value)
    [] rule.kind = "isEqualToProperty" -> StrictEquals(Get(target, rule.otherProperty), value)
    [] rule.kind = "isNotEqualToProperty" -> ~StrictEquals(Get(target, rule.otherProperty), value)
    [] rule.kind = "isPassword" -> value.t = "string" /\ PasswordTest(value.s)
    [] OTHER -> FALSE

\* -------------------------------------------------------------------- heap
\* An object is a function from keys to slots; a slot holds a boolean or a
\* reference.  Every object is allocated by createValidator (owner 0) or by one
\* validate call (owner c): its address is the owner and the allocation index
\* within that owner, so a fresh object never has the address of another one.
Addr(own, idx) == [own |-> own, idx |-> idx]
NoAddr == Addr(0, 0)
Bool(b) == [isRef |-> FALSE, addr |-> NoAddr, b |-> b]
Ref(a) == [isRef |-> TRUE, addr |-> a, b |-> FALSE]
Deref(h, a) == h[a.own][a.idx]

\* Object.fromEntries: later entries override earlier ones.
FromEntries(es) ==
  [k \in {es[i].key : i \in DOMAIN es} |->
     es[CHOOSE i \in DOMAIN es : es[i].key = k /\ \A j \in DOMAIN es : j > i => es[j].key # k].slot]

\* {...obj, [key]: slot}
Assign(obj, key, slot) ==
  [k \in DOMAIN obj \cup {key} |-> IF k = key THEN slot ELSE obj[k]]

\* The engine's state, and for the rule catalogue taken alone: one rule
\* instance and the isValid calls made on it so far, in order.
VARIABLES schema, engine, initialValidation, heap, calls, rule, isValidCalls

vars == <<schema, engine, initialValidation, heap, calls, rule, isValidCalls>>

Calls == 1..MaxCalls

IdleCall ==
  [pc |-> "idle", target |-> <<>>, validations |-> NoAddr, isValid |-> TRUE,
   isValidProperty |-> TRUE, value |-> Undefined, pi |-> 0, ri |-> 0,
   pending |-> "none", result |-> NoAddr, error |-> "none", outcomes |-> {},
   reads |-> <<>>, invoked |-> <<>>]

Init ==
  /\ schema \in Schemas
  /\ engine = "none"
  /\ initialValidation = NoAddr
  /\ heap = [o \in 0..MaxCalls |-> <<>>]
  /\ calls = [c \in Calls |-> IdleCall]
  /\ rule = ARule("none")
  /\ isValidCalls = <<>>

\* ------------------------------------------------------- createValidator
\* Object.entries(rules) for every property: the all-false rule entries.
RuleEntries(rules) ==
  [j \in 1..Len(rules) |-> [key |-> rules[j].name, slot |-> Bool(FALSE)]]

\* The property objects and the top-level object of initialValidation.
InitialObjects(s, own, base) ==
  [i \in 1..Len(s) |-> FromEntries(RuleEntries(s[i].val.rules))]
  \o <<Assign(FromEntries([i \in 1..Len(s) |-> [key |-> s[i].name, slot |-> Ref(Addr(own, base + i))]]),
              "isValid", Bool(FALSE))>>

CreateValidator ==
  /\ engine = "none"
  /\ IF \E i \in 1..Len(schema) : schema[i].val.null
       THEN /\ engine' = "failed"
            /\ UNCHANGED <<initialValidation, heap>>
       ELSE /\ engine' = "ready"
            /\ heap' = [heap EXCEPT ![0] = @ \o InitialObjects(schema, 0, Len(@))]
            /\ initialValidation' = Addr(0, Len(heap'[0]))
  /\ UNCHANGED <<schema, calls, rule, isValidCalls>>

\* ----------------------------------------------------------------- validate
\* The operators below work on a machine m = [calls, heap] and the call c they run.

\* Lines 160-173: one object per property, every rule name and isValid seeded
\* false, and the top-level object holding them.
ValidateObjects(s, own, base) ==
  [i \in 1..Len(s) |-> Assign(FromEntries(RuleEntries(s[i].val.rules)), "isValid", Bool(FALSE))]
  \o <<FromEntries([i \in 1..Len(s) |-> [key |-> s[i].name, slot |-> Ref(Addr(own, base + i))]])>>

\* validations = {...validations, [property]: {...validations[property], [key]: slot}}
SetEntry(m, c, property, key, slot) ==
  LET top == Deref(m.heap, m.calls[c].validations)
      id == Len(m.heap[c]) + 1
  IN [calls |-> [m.calls EXCEPT ![c].validations = Addr(c, id + 1)],
      heap |-> [m.heap EXCEPT ![c] = @ \o <<Assign(Deref(m.heap, top[property].addr), key, slot),
                                            Assign(top, property, Ref(Addr(c, id)))>>]]

\* isValid and isValidProperty kept in the engine's closure, shared by all calls.
FailedShared(cs, c) ==
  [d \in DOMAIN cs |-> [cs[d] EXCEPT !.isValid = FALSE, !.isValidProperty = FALSE]]

\* Lines 198-199: isValid = false; isValidProperty = false (locals of the call).
Failed(cs, c) ==
  [cs EXCEPT ![c].isValid = FALSE, ![c].isValidProperty = FALSE]

\* A validate that writes its result into the initialValidation object and returns it.
ReturnIntoInitial(m, c) ==
  LET call == m.calls[c]
  IN [calls |-> [m.calls EXCEPT ![c].pc = "returned", ![c].result = initialValidation],
      heap |-> [m.heap EXCEPT ![initialValidation.own][initialValidation.idx] =
                                 Assign(Deref(m.heap, call.validations), "isValid", Bool(call.isValid))]]

\* A validate that remembers the report of an earlier call with an equal target.
ReturnCached(m, c) ==
  LET call == m.calls[c]
      hits == {d \in DOMAIN m.calls : d # c /\ m.calls[d].pc = "returned"
                                            /\ m.calls[d].target = call.target}
  IN IF hits = {}
       THEN [calls |-> [m.calls EXCEPT ![c].pc = "returned", ![c].result = call.validations],
             heap |-> [m.heap EXCEPT ![call.validations.own][call.validations.idx] =
                                        Assign(@, "isValid", Bool(call.isValid))]]
       ELSE [m EXCEPT !.calls[c].pc = "returned",
                      !.calls[c].result = m.calls[CHOOSE d \in hits : TRUE].result]

\* Lines 219-221: validations.isValid = isValid (in place); return validations.
Return(m, c) ==
  LET call == m.calls[c]
  IN [calls |-> [m.calls EXCEPT ![c].pc = "returned", ![c].result = call.validations],
      heap |-> [m.heap EXCEPT ![call.validations.own][call.validations.idx] =
                                 Assign(@, "isValid", Bool(call.isValid))]]

\* A validate that catches the failure and hands back what it has built so far.
ThrowCaught(m, c, e) ==
  [m EXCEPT !.calls[c].pc = "returned", !.calls[c].result = m.calls[c].validations,
            !.calls[c].pending = "none"]

\* A failure leaving validate: the promise rejects with it, no report is delivered.
Throw(m, c, e) ==
  [m EXCEPT !.calls[c].pc = "rejected", !.calls[c].error = e, !.calls[c].pending = "none"]

\* The third argument of rule.isValid re-read from the target at every call.
ValueArgumentReread(call, property) == Get(call.target, property)

\* Line 186: the third argument of rule.isValid is the local `value` of line 178.
ValueArgument(call, property) == call.value

\* A validate that races every rule against a timer and takes a rule still
\* pending when the timer fires as failed.
InvokeWithTimeout(m, c, s) ==
  LET call == m.calls[c]
      rule_ == s[call.pi].val.rules[call.ri].val
      m1 == [m EXCEPT !.calls[c].pc = "awaiting",
                      !.calls[c].invoked = Append(@, [pi |-> call.pi, ri |-> call.ri, value |-> call.value])]
  IN CASE rule_.kind = "notARule" -> Throw(m, c, TypeError)
       [] rule_.kind = "custom" -> [m1 EXCEPT !.calls[c].pending = "io"]
       [] rule_.kind = "never" -> [m1 EXCEPT !.calls[c].pending = "false"]
       [] OTHER ->
            [m1 EXCEPT !.calls[c].pending =
                         IF RuleResult(rule_, call.target, s[call.pi].name, call.value)
                           THEN "true" ELSE "false"]

\* Line 186, up to the await: rule.isValid(target, property, value) is called
\* (`invoked` logs the call and the value it is given).
\* A catalogue rule computes its boolean during the call; a custom rule's
\* promise stays unsettled ("io"), for ever when the rule never settles
\* ("never"); a value without isValid throws a TypeError.
Invoke(m, c, s) ==
  LET call == m.calls[c]
      rule_ == s[call.pi].val.rules[call.ri].val
      value == ValueArgument(call, s[call.pi].name)
      m1 == [m EXCEPT !.calls[c].pc = "awaiting",
                      !.calls[c].invoked = Append(@, [pi |-> call.pi, ri |-> call.ri, value |-> value])]
  IN CASE rule_.kind = "notARule" -> Throw(m, c, TypeError)
       [] rule_.kind = "custom" -> [m1 EXCEPT !.calls[c].pending = "io"]
       [] rule_.kind = "never" -> [m1 EXCEPT !.calls[c].pending = "never"]
       [] OTHER ->
            [m1 EXCEPT !.calls[c].pending =
                         IF RuleResult(rule_, call.target, s[call.pi].name, value)
                           THEN "true" ELSE "false"]

RECURSIVE ForProperty(_, _, _)
RECURSIVE ForRule(_, _, _)

\* Line 183 with rule index ri: call the next rule of the property, or close
\* the property (lines 210-216) and move to the next one.  (The machine is
\* bound through a one-element set so that it is computed once.)
ForRule(machine, c, s) ==
  CHOOSE next \in
    {LET call == m.calls[c]
     IN IF call.ri <= Len(s[call.pi].val.rules)
          THEN Invoke(m, c, s)
          ELSE ForProperty(
                 [SetEntry(m, c, s[call.pi].name, "isValid", Bool(call.isValidProperty))
                    EXCEPT !.calls[c].pi = @ + 1],
                 c, s) : m \in {machine}} : TRUE

\* Line 177 with property index pi: read target[property] once (line 178; `reads`
\* logs the read), reset isValidProperty (line 181) and walk the rules; after
\* the last property return.
ForProperty(machine, c, s) ==
  CHOOSE next \in
    {LET call == m.calls[c]
     IN IF call.pi > Len(s)
          THEN Return(m, c)
          ELSE ForRule([m EXCEPT !.calls[c].value = Get(call.target, s[call.pi].name),
                                 !.calls[c].reads = Append(@, [pi |-> call.pi,
                                                               value |-> Get(call.target, s[call.pi].name)]),
                                 !.calls[c].isValidProperty = TRUE,
                                 !.calls[c].ri = 1],
                       c, s) : m \in {machine}} : TRUE

\* Lines 159-176: a call starts: fresh validations, isValid = true, first property.
Start(m, c, s, target) ==
  ForProperty(
    [calls |-> [m.calls EXCEPT ![c] = [IdleCall EXCEPT !.target = target,
                                                       !.validations = Addr(c, Len(m.heap[c]) + Len(s) + 1),
                                                       !.isValid = TRUE,
                                                       !.pi = 1]],
     heap |-> [m.heap EXCEPT ![c] = @ \o ValidateObjects(s, c, Len(@))]],
    c, s)

\* A validate that leaves the rules of a property at its first failing rule.
SettledShortCircuit(m, c, s, b) ==
  LET call == m.calls[c]
      m1 == IF b THEN m ELSE [m EXCEPT !.calls = Failed(m.calls, c)]
      m2 == SetEntry(m1, c, s[call.pi].name, s[call.pi].val.rules[call.ri].name, Bool(b))
  IN ForRule([m2 EXCEPT !.calls[c].ri = IF b THEN @ + 1 ELSE Len(s[call.pi].val.rules) + 1,
                        !.calls[c].pending = "none",
                        !.calls[c].outcomes = @ \cup {<<call.pi, call.ri, b>>}],
             c, s)

\* Lines 186-208: the awaited promise resolved to b; record it and go on.
Settled(m, c, s, b) ==
  LET call == m.calls[c]
      m1 == IF b THEN m ELSE [m EXCEPT !.calls = Failed(m.calls, c)]
      m2 == SetEntry(m1, c, s[call.pi].name, s[call.pi].val.rules[call.ri].name, Bool(b))
  IN ForRule([m2 EXCEPT !.calls[c].ri = @ + 1,
                        !.calls[c].pending = "none",
                        !.calls[c].outcomes = @ \cup {<<call.pi, call.ri, b>>}],
             c, s)

Machine == [calls |-> calls, heap |-> heap]

\* validate(target) is called on the engine; calls are numbered in call order.
Validate(c, target) ==
  /\ engine = "ready"
  /\ calls[c].pc = "idle"
  /\ \A d \in Calls : d < c => calls[d].pc # "idle"
  /\ LET m == Start(Machine, c, schema, target)
     IN calls' = m.calls /\ heap' = m.heap
  /\ UNCHANGED <<schema, engine, initialValidation, rule, isValidCalls>>

\* The promise a pending call awaits resolves to a boolean and the call resumes.
Resolve(c, b) ==
  /\ calls[c].pc = "awaiting"
  /\ \/ calls[c].pending = "io"
     \/ calls[c].pending = (IF b THEN "true" ELSE "false")
  /\ LET m == Settled(Machine, c, schema, b)
     IN calls' = m.calls /\ heap' = m.heap
  /\ UNCHANGED <<schema, engine, initialValidation, rule, isValidCalls>>

\* The promise a pending call awaits rejects: the await throws inside validate.
Reject(c) ==
  /\ calls[c].pc = "awaiting"
  /\ calls[c].pending = "io"
  /\ calls' = Throw(Machine, c, RuleError).calls
  /\ UNCHANGED <<schema, engine, initialValidation, heap, rule, isValidCalls>>

Next ==
  \/ CreateValidator
  \/ \E c \in Calls, target \in Targets : Validate(c, target)
  \/ \E c \in Calls, b \in BOOLEAN : Resolve(c, b)
  \/ \E c \in Calls : Reject(c)

Spec == Init /\ [][Next]_vars

\* ------------------------------------------------------- reading reports
\* How a caller reads a report: obj[key] is a boolean, an object, or undefined
\* when the key is missing; reading a key of a boolean gives undefined too.
Read(obj, key) ==
  IF key \notin DOMAIN obj THEN "undefined"
  ELSE IF obj[key].isRef THEN "object"
  ELSE IF obj[key].b THEN "true" ELSE "false"

ReadIn(h, obj, property, key) ==
  IF property \in DOMAIN obj /\ obj[property].isRef
    THEN Read(Deref(h, obj[property].addr), key)
    ELSE "undefined"

\* The keys found under obj[property] (none when it is not an object).
KeysIn(h, obj, property) ==
  IF property \in DOMAIN obj /\ obj[property].isRef
    THEN DOMAIN Deref(h, obj[property].addr)
    ELSE {}

AsText(b) == IF b THEN "true" ELSE "false"

Returned(c) == calls[c].pc = "returned"
ReportOf(c) == Deref(heap, calls[c].result)
InitialReport == Deref(heap, initialValidation)

PropsOf(s) == {s[i].name : i \in 1..Len(s)}
RuleNamesOf(s, i) == {s[i].val.rules[j].name : j \in 1..Len(s[i].val.rules)}

\* A schema as the Schema type describes it: mappings of Rule-shaped values.
WellFormed(s) ==
  \A i \in 1..Len(s) :
    /\ ~s[i].val.null
    /\ \A j \in 1..Len(s[i].val.rules) : s[i].val.rules[j].val.kind # "notARule"

\* Every rule of the schema is a catalogue rule: deterministic, no side effect.
Deterministic(s) ==
  /\ WellFormed(s)
  /\ \A i \in 1..Len(s) : \A j \in 1..Len(s[i].val.rules) : s[i].val.rules[j].val.kind # "custom"

\* No property of the schema is named like the report's aggregate key.
NoReservedProperty(s) == "isValid" \notin PropsOf(s)

\* ------------------------------------------------------------------ claims

\* C1: in every returned report the top-level isValid is the logical AND of
\* report[p].isValid over every property p of the schema.
C1_TopIsAndOfProperties ==
  \A c \in Calls : Returned(c) =>
    (Read(ReportOf(c), "isValid") = "true"
       <=> \A p \in PropsOf(schema) : ReadIn(heap, ReportOf(c), p, "isValid") = "true")

\* The statement of C1 for the schemas without a property named isValid.
C1_ExceptReservedProperty ==
  NoReservedProperty(schema) => C1_TopIsAndOfProperties

\* C2: in every returned report, for every property p of the schema,
\* report[p].isValid is the logical AND of report[p][r] over the rule names r
\* under p (true when p has no rule).
C2_PropertyIsAndOfRules ==
  \A c \in Calls : Returned(c) =>
    \A i \in 1..Len(schema) :
      (ReadIn(heap, ReportOf(c), schema[i].name, "isValid") = "true"
         <=> \A r \in RuleNamesOf(schema, i) :
               ReadIn(heap, ReportOf(c), schema[i].name, r) = "true")

\* The statement of C2 for the schemas without a property named isValid.
C2_ExceptReservedProperty ==
  NoReservedProperty(schema) => C2_PropertyIsAndOfRules

\* C3: whatever the property and rule names of the schema, a call whose rules
\* all resolve returns a report, and the report holds under every property p
\* and rule name r the boolean that rule resolved to in that call.
C3_EveryRuleOutcomeReported ==
  \A c \in Calls :
    /\ Returned(c) =>
         \A i \in 1..Len(schema) : \A j \in 1..Len(schema[i].val.rules) :
           \E b \in BOOLEAN :
             /\ <<i, j, b>> \in calls[c].outcomes
             /\ ReadIn(heap, ReportOf(c), schema[i].name, schema[i].val.rules[j].name) = AsText(b)
    /\ Deterministic(schema) => calls[c].pc # "rejected"

\* C4: initialValidation has the key sets of every returned report, at the top
\* level and under every property, the property's own isValid (seeded false) included.
C4_InitialHasReportShape ==
  \A c \in Calls : Returned(c) =>
    /\ DOMAIN InitialReport = DOMAIN ReportOf(c)
    /\ \A p \in PropsOf(schema) :
         /\ KeysIn(heap, InitialReport, p) = KeysIn(heap, ReportOf(c), p)
         /\ ReadIn(heap, InitialReport, p, "isValid") = "false"

\* C5: initialValidation holds an entry, false, for every property p and rule
\* name r of the schema, and a top-level isValid, false.
C5_InitialAllFalse ==
  engine = "ready" =>
    /\ Read(InitialReport, "isValid") = "false"
    /\ \A i \in 1..Len(schema) : \A r \in RuleNamesOf(schema, i) :
         ReadIn(heap, InitialReport, schema[i].name, r) = "false"
    /\ \A k \in DOMAIN InitialReport :
         IF InitialReport[k].isRef
           THEN \A r \in KeysIn(heap, InitialReport, k) : ReadIn(heap, InitialReport, k, r) = "false"
           ELSE ~InitialReport[k].b

\* The statement of C5 for the schemas without a property named isValid.
C5_ExceptReservedProperty ==
  NoReservedProperty(schema) => C5_InitialAllFalse

\* The objects a report is made of: its top-level object and the per-property objects.
Owned(h, a) ==
  {a} \cup {Deref(h, a)[k].addr : k \in {x \in DOMAIN Deref(h, a) : Deref(h, a)[x].isRef}}

\* Every field of a report, by path.
Flat(h, a) ==
  {<<k, "", Read(Deref(h, a), k)>> : k \in DOMAIN Deref(h, a)}
  \cup UNION {{<<k, r, ReadIn(h, Deref(h, a), k, r)>> : r \in KeysIn(h, Deref(h, a), k)} :
                k \in DOMAIN Deref(h, a)}

\* The objects handed to the caller so far.
Delivered ==
  (IF engine = "ready" THEN Owned(heap, initialValidation) ELSE {})
  \cup UNION {Owned(heap, calls[c].result) : c \in {d \in Calls : Returned(d)}}

NoSharing ==
  \A c \in Calls : Returned(c) =>
    /\ Owned(heap, calls[c].result) \cap Owned(heap, initialValidation) = {}
    /\ \A d \in Calls : (d # c /\ Returned(d)) =>
         Owned(heap, calls[c].result) \cap Owned(heap, calls[d].result) = {}

\* C6: no step changes initialValidation or a report already returned, and a
\* returned report shares neither its top-level object nor a per-property
\* object with initialValidation or with the report of another call.
C6_ReportsFreshAndFrozen ==
  [][/\ \A a \in Delivered : Deref(heap', a) = Deref(heap, a)
     /\ NoSharing']_vars

C6_Witness ==
  /\ Len(schema) = 2
  /\ \A c \in Calls : Returned(c)

\* C7: two calls with the same target, under a schema of deterministic rules,
\* return two distinct objects that are equal field by field.
C7_SameTargetSameReport ==
  \A c, d \in Calls :
    (c # d /\ Returned(c) /\ Returned(d) /\ calls[c].target = calls[d].target
       /\ Deterministic(schema)) =>
      /\ calls[c].result # calls[d].result
      /\ Flat(heap, calls[c].result) = Flat(heap, calls[d].result)

C7_Witness ==
  /\ Deterministic(schema) /\ Entries(schema) = 2
  /\ Returned(1) /\ Returned(2)
  /\ calls[1].target = calls[2].target
  /\ \E o \in calls[1].outcomes : o[3]
  /\ \E o \in calls[1].outcomes : ~o[3]

\* C8: when the promise a call awaits rejects, or calling the rule throws, the
\* call rejects with that failure and delivers no report.
C8_RuleFailurePropagates ==
  /\ [](\A c \in Calls : calls[c].pc = "rejected" =>
          /\ calls[c].result = NoAddr
          /\ calls[c].error \in {RuleError, TypeError})
  /\ [][\A c \in Calls :
          (calls[c].pc = "awaiting" /\ calls'[c].pc # "awaiting"
             /\ calls'[c].outcomes = calls[c].outcomes) =>
            /\ calls'[c].pc = "rejected"
            /\ calls'[c].error = RuleError
            /\ calls'[c].result = NoAddr]_vars

C8_Witness ==
  \E c \in Calls :
    /\ calls[c].pc = "rejected" /\ calls[c].error = RuleError
    /\ calls[c].outcomes # {}

\* C9: a schema that is not a mapping of mappings of Rule-shaped values never
\* yields an engine: createValidator fails on it.
C9_MalformedSchemaFailsAtConstruction ==
  engine = "ready" => WellFormed(schema)

\* A call run alone, from start to end, on a machine of its own; a custom
\* rule resolves to the boolean recorded in outs.
RECURSIVE Finish(_, _, _)
Finish(m, s, outs) ==
  IF m.calls[1].pc # "awaiting" THEN m
  ELSE Finish(Settled(m, 1, s,
                      IF m.calls[1].pending = "io"
                        THEN <<m.calls[1].pi, m.calls[1].ri, TRUE>> \in outs
                        ELSE m.calls[1].pending = "true"),
              s, outs)

Alone(s, target, outs) ==
  Finish(Start([calls |-> <<IdleCall>>, heap |-> [o \in 0..1 |-> <<>>]], 1, s, target), s, outs)

\* C10: however the pending calls interleave, a call returns the report it
\* returns when it runs alone on its target (with the booleans its own custom
\* rules resolved to).
C10_CallsAreIndependent ==
  \A c \in Calls : Returned(c) =>
    LET alone == Alone(schema, calls[c].target, calls[c].outcomes)
    IN Flat(heap, calls[c].result) = Flat(alone.heap, alone.calls[1].result)

C10_Witness ==
  /\ calls[1].pc = "awaiting" /\ ~calls[1].isValid
  /\ Returned(2) /\ Read(ReportOf(2), "isValid") = "true"
  /\ calls[2].outcomes # {}

\* ------------------------------------------------- one call and its rules
\* One validate call under schemas whose rules are a catalogue rule, a custom
\* rule whose promise settles at some time, and a custom rule whose promise
\* never settles.
SettlingRules ==
  {[name |-> "isValidAnswer", val |-> IsNumberEqualTo(Num(42))],
   [name |-> "isNotTaken", val |-> CustomRule],
   [name |-> "isPending", val |-> NeverRule]}

SettlingSchemas ==
  NoDupSeqs([name : {"answer", "email"},
             val : {RulesOf(rs) : rs \in NoDupSeqs(SettlingRules, MaxRules)}], MaxProps)

InitSettling ==
  /\ schema \in SettlingSchemas
  /\ engine = "none"
  /\ initialValidation = NoAddr
  /\ heap = [o \in 0..MaxCalls |-> <<>>]
  /\ calls = [c \in Calls |-> IdleCall]
  /\ rule = ARule("none")
  /\ isValidCalls = <<>>

\* The promise the call awaits settles, one way or the other.
Settle(c) == (\E b \in BOOLEAN : Resolve(c, b)) \/ Reject(c)

NextSettling ==
  \/ CreateValidator
  \/ \E target \in Targets : Validate(1, target)
  \/ \E b \in BOOLEAN : Resolve(1, b)
  \/ Reject(1)

\* Fairness: a promise that can settle does settle (the hypothesis "every
\* rule's isValid eventually settles"), and the job queue then resumes the
\* awaiting call (line 186).  A promise that never settles enables nothing.
SpecSettling == InitSettling /\ [][NextSettling]_vars /\ WF_vars(Settle(1))

\* The call awaits, at line 186, a rule whose promise never settles.
AwaitsNever(c) ==
  /\ calls[c].pc = "awaiting"
  /\ schema[calls[c].pi].val.rules[calls[c].ri].val.kind = "never"

\* C11: validate has no timeout: a call that awaits a rule goes on until it
\* settles (returns or rejects) unless it comes to await a rule that never
\* settles, and a call awaiting a rule that never settles stays there for ever.
C11_SettlesIffRulesSettle ==
  /\ \A c \in Calls :
       (calls[c].pc = "awaiting") ~> (calls[c].pc \in {"returned", "rejected"} \/ AwaitsNever(c))
  /\ [][\A c \in Calls : AwaitsNever(c) => calls'[c] = calls[c]]_vars

C11_Witness ==
  /\ AwaitsNever(1)
  /\ calls[1].outcomes # {}

\* ------------------------------------------------- the rule catalogue alone
\* One rule instance built by a catalogue constructor, and isValid called on
\* it up to MaxIsValidCalls times with inputs (target, property, value).
MaxIsValidCalls == 2

\* rule.isValid(target, property, value) of a catalogue rule: what the promise
\* resolves to ("true" or "false") and the rule instance afterwards
\* (the RegExp a doesMatch or doesNotMatch rule closes over is an object that
\* regex.test may write).  Lines 121-127 and 133-139: a failure of regex.test
\* is caught and gives false.
IsValidOf(r, target, property, value) ==
  IF r.kind \in {"doesMatch", "doesNotMatch"}
    THEN IF value.t # "string" THEN [result |-> "false", rule |-> r]
         ELSE IF ~r.regex.isRegExp THEN [result |-> "false", rule |-> r]
         ELSE LET test == RegExpTest(r.regex, value.s)
              IN [result |-> AsText(IF r.kind = "doesMatch" THEN test.result ELSE ~test.result),
                  rule |-> [r EXCEPT !.regex = test.regex]]
    ELSE [result |-> AsText(RuleResult(r, target, property, value)), rule |-> r]

\* Expected numbers and values around them: integers, numbers with a
\* fractional part, NaN, Infinity, a string of digits and undefined.
ExpectedValues == {Num(42), Half(41), NaN}
NumberInputs ==
  {Undefined, Str(<<"4", "2">>), Num(41), Num(42), Num(43), Half(41), Half(42), NaN, Infinity}

NumberRules ==
  {IsNumber, IsInteger}
  \cup {IsNumberEqualTo(n) : n \in ExpectedValues}
  \cup {IsNumberNotEqualTo(n) : n \in ExpectedValues}
  \cup {IsNumberGreaterThan(n) : n \in ExpectedValues}
  \cup {IsNumberLowerThan(n) : n \in ExpectedValues}
  \cup {IsIntegerEqualTo(n) : n \in ExpectedValues}
  \cup {IsIntegerNotEqualTo(n) : n \in ExpectedValues}
  \cup {IsIntegerGreaterThan(n) : n \in ExpectedValues}
  \cup {IsIntegerLowerThan(n) : n \in ExpectedValues}

\* isPassword() (the minimum omitted: its default) and isPassword(minimum).
Minimums == {DefaultMinimum - 2, DefaultMinimum, DefaultMinimum + 2}
PasswordRules == {IsPassword(minimum) : minimum \in Minimums}

\* Candidate passwords: all four character classes, one class missing, or a
\* line break inside, at lengths around the minimums.
Pad(core, n) == core \o [i \in 1..(n - Len(core)) |-> core[1]]
PasswordCores ==
  {<<"a", "A", "1", "!">>, <<"A", "1", "!">>, <<"a", "1", "!">>, <<"a", "A", "!">>,
   <<"a", "A", "1">>, <<"a", "A", "1", "!", "\n">>}
PasswordLengths == {DefaultMinimum - 1, DefaultMinimum, DefaultMinimum + 2}
PasswordInputs ==
  {Str(Pad(core, n)) : core \in PasswordCores, n \in PasswordLengths} \cup {Undefined, Num(42)}

\* doesMatch and doesNotMatch over regular expressions with and without the
\* global flag, and over a value that is no RegExp.
RegExps == {RegExp(source, global) : source \in {<<"a">>, <<"a", "A">>}, global \in BOOLEAN}
RegExpRules ==
  {DoesMatch(regex) : regex \in RegExps \cup {NoRegExp}}
  \cup {DoesNotMatch(regex) : regex \in RegExps \cup {NoRegExp}}
RegExpInputs ==
  {Str(cs) : cs \in UNION {[1..k -> {"a", "A"}] : k \in 0..2}} \cup {Undefined, Num(42)}

\* isEqualToProperty and isNotEqualToProperty against the property "confirmation".
PropertyRules == {IsEqualToProperty("confirmation"), IsNotEqualToProperty("confirmation")}
PropertyValues == {Undefined, Num(42), NaN, Str(<<"4", "2">>)}
PropertyTargets == {<<>>} \cup [{"confirmation"} -> PropertyValues \ {Undefined}]

CatalogueRules == NumberRules \cup PasswordRules \cup RegExpRules \cup PropertyRules

\* The inputs isValid is called with, by kind of rule.
InputsOf(r) ==
  IF r \in NumberRules
    THEN [target : {<<>>}, property : {"answer"}, value : NumberInputs]
  ELSE IF r.kind = "isPassword"
    THEN [target : {<<>>}, property : {"password"}, value : PasswordInputs]
  ELSE IF r.kind \in {"doesMatch", "doesNotMatch"}
    THEN [target : {<<>>}, property : {"color"}, value : RegExpInputs]
  ELSE IF r.kind \in {"isEqualToProperty", "isNotEqualToProperty"}
    THEN [target : PropertyTargets, property : {"password", "confirmation"}, value : PropertyValues]
  ELSE {}

InitCatalogue ==
  /\ rule \in CatalogueRules
  /\ isValidCalls = <<>>
  /\ schema = <<>>
  /\ engine = "none"
  /\ initialValidation = NoAddr
  /\ heap = [o \in 0..MaxCalls |-> <<>>]
  /\ calls = [c \in Calls |-> IdleCall]

\* One more call of rule.isValid, awaited to its end.
IsValid(target, property, value) ==
  /\ Len(isValidCalls) < MaxIsValidCalls
  /\ LET settled == IsValidOf(rule, target, property, value)
     IN /\ rule' = settled.rule
        /\ isValidCalls' = Append(isValidCalls,
                                  [target |-> target, property |-> property, value |-> value,
                                   result |-> settled.result])
  /\ UNCHANGED <<schema, engine, initialValidation, heap, calls>>

NextCatalogue == \E in \in InputsOf(rule) : IsValid(in.target, in.property, in.value)

SpecCatalogue == InitCatalogue /\ [][NextCatalogue]_vars

\* The number a value stands for, in halves; finite numbers only.
Finite(v) == v.t = "number" /\ v.x \in {"", "half"}
InHalves(v) == 2 * v.n + (IF v.x = "half" THEN 1 ELSE 0)

\* v = n and v < n on numbers: NaN is equal to nothing and unordered, Infinity
\* is above every finite number.
NumberEq(v, n) ==
  \/ Finite(v) /\ Finite(n) /\ InHalves(v) = InHalves(n)
  \/ v.x = "Infinity" /\ n.x = "Infinity"
NumberLess(v, n) ==
  \/ Finite(v) /\ Finite(n) /\ InHalves(v) < InHalves(n)
  \/ Finite(v) /\ n.x = "Infinity"
\* v is a whole number.
NoFractionalPart(v) == Finite(v) /\ InHalves(v) % 2 = 0

\* What the documentation says a number rule accepts.
NumberRuleAccepts(r, v) ==
  /\ v.t = "number"
  /\ r.kind \in {"isNumberEqualTo", "isIntegerEqualTo"} => NumberEq(v, r.expectedValue)
  /\ r.kind \in {"isNumberNotEqualTo", "isIntegerNotEqualTo"} => ~NumberEq(v, r.expectedValue)
  /\ r.kind \in {"isNumberGreaterThan", "isIntegerGreaterThan"} => NumberLess(r.expectedValue, v)
  /\ r.kind \in {"isNumberLowerThan", "isIntegerLowerThan"} => NumberLess(v, r.expectedValue)
  /\ r.kind \in {"isInteger", "isIntegerEqualTo", "isIntegerNotEqualTo",
                 "isIntegerGreaterThan", "isIntegerLowerThan"} => NoFractionalPart(v)

\* C12: every number rule accepts a value exactly when the value is of number
\* type and stands in the rule's relation (=, !=, >, <) to the expected number,
\* and every integer rule when moreover the value has no fractional part; a
\* value that is not a number is rejected by all of them.
C12_NumberRulesAcceptExactly ==
  rule \in NumberRules =>
    \A i \in 1..Len(isValidCalls) :
      /\ isValidCalls[i].result = AsText(NumberRuleAccepts(rule, isValidCalls[i].value))
      /\ isValidCalls[i].value.t # "number" => isValidCalls[i].result = "false"

C12_Witness ==
  /\ rule = IsIntegerNotEqualTo(Num(42))
  /\ Len(isValidCalls) = 2
  /\ isValidCalls[1].value = Str(<<"4", "2">>) /\ isValidCalls[1].result = "false"
  /\ isValidCalls[2].value = Num(41) /\ isValidCalls[2].result = "true"

\* A string of at least m characters with a lower case letter, an upper case
\* letter, a digit and a character that is neither letter nor digit.
StrongPassword(str, m) ==
  /\ Len(str) >= m
  /\ \E i \in 1..Len(str) : str[i] \in LowerCase
  /\ \E i \in 1..Len(str) : str[i] \in UpperCase
  /\ \E i \in 1..Len(str) : str[i] \in Digits
  /\ \E i \in 1..Len(str) : str[i] \notin LowerCase \cup UpperCase \cup Digits

\* C13: isPassword(m), m being 8 when omitted, accepts a value exactly when it
\* is a string of at least m characters holding a lower case letter, an upper
\* case letter, a digit and a symbol.
C13_PasswordOfMinimumLength ==
  rule.kind = "isPassword" =>
    \A i \in 1..Len(isValidCalls) :
      isValidCalls[i].result =
        AsText(isValidCalls[i].value.t = "string"
               /\ StrongPassword(isValidCalls[i].value.s, rule.minimum))

\* The statement of C13 for the default minimum and strings without a line break.
C13_ForDefaultMinimum ==
  (rule.kind = "isPassword" /\ rule.minimum = DefaultMinimum) =>
    \A i \in 1..Len(isValidCalls) :
      (\A k \in 1..Len(isValidCalls[i].value.s) : isValidCalls[i].value.s[k] \notin LineTerminators) =>
        isValidCalls[i].result =
          AsText(isValidCalls[i].value.t = "string"
                 /\ StrongPassword(isValidCalls[i].value.s, rule.minimum))

\* The pattern of the regular expression matches the string: it occurs in it.
Matches(regex, str) ==
  regex.isRegExp /\ \E i \in 0..Len(str) : OccursAt(regex.source, str, i)

\* C14: doesMatch(p) accepts a value exactly when it is a string that p
\* matches and doesNotMatch(p) exactly when it is a string that p does not
\* match; on a value that is not a string both resolve to false, and when the
\* matching attempt throws (p has no test operation) both resolve to false
\* and never reject.
C14_MatchRulesAcceptExactly ==
  rule.kind \in {"doesMatch", "doesNotMatch"} =>
    \A i \in 1..Len(isValidCalls) :
      LET value == isValidCalls[i].value
      IN /\ isValidCalls[i].result # "rejected"
         /\ (value.t # "string" \/ ~rule.regex.isRegExp) => isValidCalls[i].result = "false"
         /\ (value.t = "string" /\ rule.regex.isRegExp) =>
              isValidCalls[i].result =
                AsText(IF rule.kind = "doesMatch" THEN Matches(rule.regex, value.s)
                                                ELSE ~Matches(rule.regex, value.s))

\* The statement of C14 for regular expressions without the global flag.
C14_ExceptGlobalFlag ==
  ~rule.regex.global => C14_MatchRulesAcceptExactly

\* T[o] === v as the language defines it: same type and same value, NaN being
\* equal to nothing, the undefined value only to itself.
StrictlyEqual(a, b) ==
  /\ a.t = b.t
  /\ a.t = "number" => NumberEq(a, b)
  /\ a.t = "string" => a.s = b.s

\* C15: isEqualToProperty(o) accepts v exactly when v is strictly equal to
\* T[o], the undefined value when T has no o, and isNotEqualToProperty(o)
\* accepts exactly the values isEqualToProperty(o) rejects; also when o is the
\* property being validated.
C15_PropertyRulesAcceptExactly ==
  rule.kind \in {"isEqualToProperty", "isNotEqualToProperty"} =>
    \A i \in 1..Len(isValidCalls) :
      LET other == IF rule.otherProperty \in DOMAIN isValidCalls[i].target
                     THEN isValidCalls[i].target[rule.otherProperty] ELSE Undefined
          equal == StrictlyEqual(other, isValidCalls[i].value)
      IN isValidCalls[i].result = AsText(IF rule.kind = "isEqualToProperty" THEN equal ELSE ~equal)

C15_Witness ==
  /\ rule = IsNotEqualToProperty("confirmation")
  /\ Len(isValidCalls) = 2
  /\ isValidCalls[1].target = <<>> /\ isValidCalls[1].value = Undefined
  /\ isValidCalls[1].property = "confirmation" /\ isValidCalls[1].result = "false"
  /\ isValidCalls[2].target = [confirmation |-> NaN] /\ isValidCalls[2].value = NaN
  /\ isValidCalls[2].result = "true"

\* C16: two isValid calls on one rule instance with the same target, property
\* and value resolve to the same boolean, whatever calls came in between.
C16_RulesArePure ==
  \A i, j \in 1..Len(isValidCalls) :
    (/\ isValidCalls[i].target = isValidCalls[j].target
     /\ isValidCalls[i].property = isValidCalls[j].property
     /\ isValidCalls[i].value = isValidCalls[j].value) =>
      isValidCalls[i].result = isValidCalls[j].result

\* The statement of C16 for every rule but doesMatch and doesNotMatch over a
\* regular expression with the global flag.
C16_ExceptGlobalFlag ==
  ~rule.regex.global => C16_RulesArePure

\* ------------------------------------------------------ order of the rules
\* The rules of a schema in schema order, from property i on: properties in
\* the order of the schema's keys, the rules of a property in the order of its keys.
RECURSIVE RuleOrder(_, _)
RuleOrder(s, i) ==
  IF i > Len(s) THEN <<>>
  ELSE [j \in 1..Len(s[i].val.rules) |-> <<i, j>>] \o RuleOrder(s, i + 1)

\* C17: the rules a call has invoked so far are the first rules of the schema
\* in schema order, each once; a call that returns has invoked every rule of
\* the schema, whatever failed before; and a call never has more than one
\* invocation that has not settled.
C17_EveryRuleOnceInOrder ==
  \A c \in Calls :
    LET invoked == calls[c].invoked
        order == RuleOrder(schema, 1)
    IN /\ Len(invoked) <= Len(order)
       /\ \A k \in 1..Len(invoked) : <<invoked[k].pi, invoked[k].ri>> = order[k]
       /\ Returned(c) => Len(invoked) = Len(order)
       /\ Len(invoked) - Cardinality(calls[c].outcomes) \in {0, 1}
       /\ Len(invoked) - Cardinality(calls[c].outcomes) = 1 <=>
            (calls[c].pc = "awaiting" \/ (calls[c].pc = "rejected" /\ calls[c].error = RuleError))

C17_Witness ==
  /\ Returned(1)
  /\ Len(schema) = 2 /\ Len(calls[1].invoked) = 3
  /\ <<1, 1, FALSE>> \in calls[1].outcomes
  /\ calls[1].invoked[2].pi = 1 /\ calls[1].invoked[3].pi = 2

\* ------------------------------------------------- a target that changes
\* One validate call on an object the caller goes on writing while the call
\* awaits its rules: a rule comparing with another property, and a custom rule.
LiveRules ==
  {[name |-> "isSame", val |-> IsEqualToProperty("confirmation")],
   [name |-> "isNotTaken", val |-> CustomRule]}

LiveSchemas ==
  NoDupSeqs([name : {"password", "confirmation"},
             val : {RulesOf(rs) : rs \in NoDupSeqs(LiveRules, MaxRules)}], MaxProps)

LiveValues == {Num(41), Num(42)}
LiveTargets ==
  {<<>>} \cup [{"password"} -> LiveValues] \cup [{"password", "confirmation"} -> LiveValues]

InitLive ==
  /\ schema \in LiveSchemas
  /\ engine = "none"
  /\ initialValidation = NoAddr
  /\ heap = [o \in 0..MaxCalls |-> <<>>]
  /\ calls = [c \in Calls |-> IdleCall]
  /\ rule = ARule("none")
  /\ isValidCalls = <<>>

\* The caller assigns target[property] = v while the call awaits a rule: the
\* call holds the caller's object, not a copy (lines 159, 178, 186).
Mutate(c, property, v) ==
  /\ calls[c].pc = "awaiting"
  /\ Get(calls[c].target, property) # v
  /\ calls' = [calls EXCEPT ![c].target = Assign(@, property, v)]
  /\ UNCHANGED <<schema, engine, initialValidation, heap, rule, isValidCalls>>

NextLive ==
  \/ CreateValidator
  \/ \E target \in LiveTargets : Validate(1, target)
  \/ \E b \in BOOLEAN : Resolve(1, b)
  \/ Reject(1)
  \/ \E property \in {"password", "confirmation"}, v \in LiveValues : Mutate(1, property, v)

SpecLive == InitLive /\ [][NextLive]_vars

\* C18: a call reads target[p] once for every property p it reaches, when it
\* reaches it (the undefined value when p is missing), and hands that value to
\* every rule of p, whatever the target holds by then; the target it hands
\* over is the caller's object, so a rule comparing with another property
\* compares with what that property holds when the rule is called.
C18_ValueReadOnceTargetLive ==
  /\ [](\A c \in Calls :
          /\ \A k \in 1..Len(calls[c].reads) : calls[c].reads[k].pi = k
          /\ \A k \in 1..Len(calls[c].invoked) :
               /\ calls[c].invoked[k].pi <= Len(calls[c].reads)
               /\ calls[c].invoked[k].value = calls[c].reads[calls[c].invoked[k].pi].value)
  /\ [][\A c \in Calls :
          /\ \A k \in (Len(calls[c].reads) + 1)..Len(calls'[c].reads) :
               calls'[c].reads[k].value = Get(calls'[c].target, schema[k].name)
          /\ (Len(calls'[c].invoked) > Len(calls[c].invoked) /\ calls'[c].pc = "awaiting") =>
               LET called == schema[calls'[c].pi].val.rules[calls'[c].ri].val
               IN called.kind = "isEqualToProperty" =>
                    calls'[c].pending =
                      AsText(StrictlyEqual(Get(calls'[c].target, called.otherProperty),
                                           calls'[c].invoked[Len(calls'[c].invoked)].value))]_vars

\* The second rule of password has been called with the value read before the
\* caller changed target.password, and has compared it with the confirmation
\* the caller wrote meanwhile.
C18_Witness ==
  /\ Len(schema) >= 1 /\ schema[1].name = "password"
  /\ calls[1].pc = "awaiting" /\ calls[1].pi = 1 /\ calls[1].ri = 2
  /\ schema[1].val.rules[2].val.kind = "isEqualToProperty"
  /\ Len(calls[1].invoked) = 2
  /\ calls[1].invoked[2].value = Num(42)
  /\ calls[1].target = [password |-> Num(41), confirmation |-> Num(42)]
  /\ calls[1].reads = <<[pi |-> 1, value |-> Num(42)]>>
  /\ calls[1].pending = "true"
====
